---------------------------- MODULE Spec2Model ----------------------------
(***************************************************************************)
(* Sinc aperture photometry (src/src/photometry/SincPhotometry.cc):        *)
(*   - the coefficient-image cache SincCoeffs<PixelT>::_coeffImages, a     *)
(*     two-level std::map keyed by float radii under fuzzyCompare<float>,  *)
(*     read and filled by SincCoeffs::_calculateImage;                     *)
(*   - the cosine-tapered aperture CircularAperture<CoordT>;               *)
(*   - one _calculateImage call step by step: window, radius solver,       *)
(*     aperture, coefficient integrals, store;                             *)
(*   - SincPhotometry::doMeasure: the kernel's box clipped to the image;   *)
(*   - getCoeffImageFft, one buffer element per step;                      *)
(*   - FootprintWeightFlux: construction, reset and per-pixel sums;        *)
(*   - SincPhotometry's static radii, doConfigure and doMeasure as whole   *)
(*     calls on the cache;                                                 *)
(* and the radial profile of EllipticalApertureFlux::_apply                *)
(* (src/src/flux/EllipticalApertureFlux.cc).                               *)
(*                                                                         *)
(* Cache radii are counted in steps of 2^-25 above 1/2, i.e. in the float  *)
(* binade [1/2, 1): there a float is every second step and                 *)
(* numeric_limits<float>::epsilon() = 2^-23 is four steps.                 *)
(***************************************************************************)
EXTENDS Integers, FiniteSets, Sequences, TLC

\* ------------------------------------------------------------------------
\* Bounds of the model
\* ------------------------------------------------------------------------
\* largest radius argument (a double), in steps
MaxRadius == 4
\* number of coefficient images the process may allocate
MaxKernels == 3
\* rows of a coefficient image (ywidth), each written by one pass of the
\* inner loop of lines 436-455
ImageRows == 2
\* threads calling getCoeffImage
NThreads == 2
\* largest aperture radius, in quarter pixels
MaxApRadius == 4
\* largest radius of a step-by-step _calculateImage call, in quarter pixels
MaxSynthRadius == 1
\* width and height of the measured image, in pixels
ImageSide == 24
\* largest distance of a peak from the image's origin, in pixels
MaxCenter == 36
\* largest configured profile radius, in pixels
MaxProfRadius == 3
\* longest configured list of profile radii
MaxRadii == 3
\* largest radius handed to getCoeffImageFft, in quarter pixels
MaxFftRadius == 4
\* largest side of a weight image and of a footprint's box, in pixels
MaxSide == 2

\* ------------------------------------------------------------------------
\* Program constants
\* ------------------------------------------------------------------------
\* std::numeric_limits<float>::epsilon(), in steps
Eps == 4
\* the default of getImage's taperwidth argument
DefaultTaper == 1
\* bufferWidth of _calculateImage, in pixels
bufferWidth == 10
\* maxIt of the radius solver
maxIt == 20

Radii == 0..MaxRadius
TaperWidths == {DefaultTaper, 2}
Threads == 1..NThreads
\* the (innerRadius, radius) settings the threads of a measurement run
\* ask for: two radii exactly epsilon apart, and one setting out of order
SharedKeys == {<<0, 0>>, <<0, Eps>>, <<Eps, 0>>}

VARIABLES
    coeffImages,   \* SincCoeffs::_coeffImages: inner radius -> (radius -> image)
    nAlloc,        \* coefficient images allocated so far (make_shared)
    nSynth,        \* coefficient-filling loops run to completion
    call,          \* the last completed getImage call and its outcome
    earlier,       \* history: one completed call before `call`
    pc,            \* per thread: where it stands in _calculateImage
    args,          \* per thread: the arguments of its call
    img,           \* per thread: its local coeffImage, or the image it returns
    torn,          \* per thread: its map access overlaps another's insert
    raced,         \* history: some map access has overlapped an insert
    ap,            \* the CircularAperture last constructed
    trans,         \* the last evaluation of ap's operator()
    synth,         \* one _calculateImage call, step by step
    meas,          \* one SincPhotometry::doMeasure call
    prof,          \* one EllipticalApertureFlux::_apply call
    fft,           \* one getCoeffImageFft call, element by element
    wflux,         \* one FootprintWeightFlux functor and its applications
    phot           \* SincPhotometry's static radii and its last operation

cacheVars == <<coeffImages, nAlloc, nSynth, call, earlier>>
threadVars == <<pc, args, img, torn, raced>>
apVars == <<ap, trans>>
measVars == <<synth, meas, prof>>
restVars == <<fft, wflux>>
vars == <<coeffImages, nAlloc, nSynth, call, earlier, pc, args, img, torn, raced,
          ap, trans, synth, meas, prof, fft, wflux, phot>>

Abs(x) == IF x < 0 THEN -x ELSE x

Min(S) == CHOOSE m \in S : \A n \in S : m <= n

\* double -> float at the getImage(float r1, float r2, ...) boundary:
\* round to nearest, ties to the even mantissa
ToFloat(d) ==
    IF d % 2 = 0 THEN d
    ELSE IF ((d - 1) \div 2) % 2 = 0 THEN d - 1 ELSE d + 1

\* fuzzyCompare with a difference of exactly epsilon taken as equal
fuzzyCompareInclusive(x, y) ==
    IF Abs(x - y) <= Eps THEN FALSE ELSE x - y < 0

\* fuzzyCompare<float>::operator(): "x sorts before y"
fuzzyCompare(x, y) ==
    IF Abs(x - y) < Eps THEN FALSE ELSE x - y < 0

\* std::map::lower_bound under fuzzyCompare: the first key not sorted
\* before k, as a set ({} is end())
LowerBound(keys, k) ==
    LET c == {n \in keys : ~fuzzyCompare(n, k)}
    IN  IF c = {} THEN {} ELSE {Min(c)}

\* std::map::find: lower_bound, then end() if k sorts before that key
MapFind(keys, k) == {n \in LowerBound(keys, k) : ~fuzzyCompare(k, n)}

\* operator[] inserting k whatever keys are stored
MapIndexAlwaysNew(keys, k) == k

\* the key std::map::operator[] binds: the one find gives, else k inserted
MapIndex(keys, k) ==
    LET f == MapFind(keys, k)
    IN  IF f = {} THEN k ELSE CHOOSE n \in f : TRUE

NoImages == [o \in {} |-> 0]

\* lines 374-381: the two nested find calls; the set of images found
Lookup(m, r1, r2) ==
    UNION { {m[o][c] : c \in MapFind(DOMAIN m[o], r2)} :
            o \in MapFind(DOMAIN m, r1) }

\* the store with the row assigned whole, _coeffImages[innerRadius] = {radius: image}
StoreFreshRow(m, r1, r2, image) ==
    LET o == MapIndex(DOMAIN m, r1)
    IN  [x \in DOMAIN m \cup {o} |-> IF x = o THEN [c \in {r2} |-> image] ELSE m[x]]

\* line 470: _coeffImages[innerRadius][radius] = coeffImage
Store(m, r1, r2, image) ==
    LET o    == MapIndex(DOMAIN m, r1)
        row  == IF o \in DOMAIN m THEN m[o] ELSE NoImages
        c    == MapIndex(DOMAIN row, r2)
        row2 == [x \in DOMAIN row \cup {c} |-> IF x = c THEN image ELSE row[x]]
    IN  [x \in DOMAIN m \cup {o} |-> IF x = o THEN row2 ELSE m[x]]

\* the constructor's checks without the one of lines 146-150
InvalidOrderOnly(radius1, radius2) == radius1 > radius2

\* lines 141-150: the two throws of CircularAperture's constructor
InvalidGeometry(radius1, radius2) ==
    \/ radius1 > radius2
    \/ radius1 < 0 \/ radius2 < 0

\* the entries of the cache as <<inner radius, radius, image>>
Entries(m) == UNION { {<<o, c, m[o][c]>> : c \in DOMAIN m[o]} : o \in DOMAIN m }

NoImage == [id |-> 0, r1 |-> 0, r2 |-> 0, tw |-> 0, written |-> 0]

\* lines 398-399: make_shared<Image>(xwidth, ywidth, initweight)
NewImage(r1, r2, taperwidth) ==
    [id |-> nAlloc + 1, r1 |-> r1, r2 |-> r2, tw |-> taperwidth, written |-> 0]

\* lines 436-455 run to the end: every row written
Filled(image) == [image EXCEPT !.written = ImageRows]

NoCall == [r1 |-> 0, r2 |-> 0, tw |-> 0, outcome |-> "none", image |-> NoImage]

Done(r1, r2, taperwidth, outcome, image) ==
    [r1 |-> r1, r2 |-> r2, tw |-> taperwidth, outcome |-> outcome, image |-> image]

\* the history keeps, or replaces by the call now superseded, its one call
Remember == earlier' \in {earlier, call}

\* ------------------------------------------------------------------------
\* CircularAperture<double>.  Lengths are in sixteenths of a pixel, and the
\* arguments are whole quarter pixels (radii) and half pixels (taper
\* width), so that every product by 0.5 below is exact.
\* ------------------------------------------------------------------------
ApRadii == {4 * i : i \in -1..MaxApRadius}
ApTapers == {8, 16}
\* the distances at which the transmission is evaluated
ApPoints == 0..(4 * MaxApRadius + 16)

Half(x) == x \div 2

\* 1.0/x as a fraction; a zero denominator is the double +inf
Recip(x) == [num |-> 1, den |-> x]

ZeroK == [num |-> 0, den |-> 1]

RECURSIVE GCD(_, _)
GCD(a, b) == IF b = 0 THEN a ELSE GCD(b, a % b)

\* A transmission 0.5*(1 + cos(pi*p)) is held as the fraction p = <<n, d>>,
\* folded into [0, 1] and in lowest terms; in double arithmetic it is
\* exactly 0.0 for p = 1, exactly 1.0 for p = 0, and NaN when the
\* wavenumber is infinite.
Zero == <<1, 1>>
One == <<0, 1>>
NaN == <<0, 0>>

\* lines 193, 197: 0.5*(1.0 + cos((2.0*M_PI*k)*d))
CosTaper(k, d) ==
    IF k.den = 0 THEN NaN
    ELSE LET m == Abs(k.den)
             n == Abs(2 * k.num * d) % (2 * m)
             f == IF n > m THEN 2 * m - n ELSE n
             g == GCD(f, m)
         IN  <<f \div g, m \div g>>

\* lines 126-135: the member initialisers
Members(radius1, radius2, taperwidth) ==
    [radius1 |-> radius1, radius2 |-> radius2,
     taperwidth1 |-> taperwidth, taperwidth2 |-> taperwidth,
     k1 |-> Recip(2 * taperwidth), k2 |-> Recip(2 * taperwidth),
     taperLo1 |-> radius1 - Half(taperwidth),
     taperHi1 |-> radius1 + Half(taperwidth),
     taperLo2 |-> radius2 - Half(taperwidth),
     taperHi2 |-> radius2 + Half(taperwidth),
     taperwidth |-> taperwidth, made |-> TRUE, thrown |-> FALSE]

\* the disk left with the wavenumber of its initialiser
NoInnerTaperKeepsK(a) ==
    IF a.radius1 = 0
    THEN [a EXCEPT !.taperwidth1 = 0]
    ELSE a

\* lines 152-155: no inner taper for a disk
NoInnerTaper(a) ==
    IF a.radius1 = 0
    THEN [a EXCEPT !.taperwidth1 = 0, !.k1 = ZeroK]
    ELSE a

\* lines 157-161: no room to taper at r = 0
FitAtOrigin(a) ==
    IF 2 * a.radius1 < a.taperwidth1
    THEN [a EXCEPT !.taperwidth1 = 2 * a.radius1,
                   !.k1 = Recip(2 * (2 * a.radius1))]
    ELSE a

\* lines 163-182: no room to taper between r1 and r2
FitBetween(a) ==
    IF 2 * (a.radius2 - a.radius1) < a.taperwidth1 + a.taperwidth2
    THEN LET b == IF 2 * (a.radius2 - a.radius2) < a.taperwidth1
                  THEN [a EXCEPT
                          !.taperwidth1 = Half(a.radius2 - a.radius1),
                          !.taperwidth2 = Half(a.radius2 - a.radius1),
                          !.k1 = Recip(2 * Half(a.radius2 - a.radius1)),
                          !.k2 = Recip(2 * Half(a.radius2 - a.radius1))]
                  ELSE [a EXCEPT
                          !.taperwidth2 = a.radius2 - a.radius1 - a.taperwidth1,
                          !.k2 = Recip(2 * (a.radius2 - a.radius1 - a.taperwidth1))]
         IN  [b EXCEPT !.taperLo1 = b.radius1 - Half(b.taperwidth1),
                       !.taperHi1 = b.radius1 + Half(b.taperwidth1),
                       !.taperLo2 = b.radius2 - Half(b.taperwidth2),
                       !.taperHi2 = b.radius2 + Half(b.taperwidth2)]
    ELSE a

\* lines 121-183: the constructor; thrown is its InvalidParameterException
CircularAperture(radius1, radius2, taperwidth) ==
    LET a == Members(radius1, radius2, taperwidth)
    IN  IF InvalidGeometry(a.radius1, a.radius2)
        THEN [a EXCEPT !.thrown = TRUE]
        ELSE FitBetween(FitAtOrigin(NoInnerTaper(a)))

\* line 189: sqrt(x*x + y*y), for the points of an axis
Hypot(x, y) == IF y = 0 THEN Abs(x) ELSE Abs(y)

\* lines 188-201: operator()
Transmission(a, x, y) ==
    LET xyrad == Hypot(x, y)
    IN  IF xyrad < a.taperLo1 THEN Zero
        ELSE IF xyrad >= a.taperLo1 /\ xyrad <= a.taperHi1
             THEN CosTaper(a.k1, xyrad - a.taperHi1)
        ELSE IF xyrad > a.taperHi1 /\ xyrad <= a.taperLo2 THEN One
        ELSE IF xyrad > a.taperLo2 /\ xyrad <= a.taperHi2
             THEN CosTaper(a.k2, xyrad - a.taperLo2)
        ELSE Zero

NoAperture == [Members(0, 0, 0) EXCEPT !.made = FALSE]

\* ------------------------------------------------------------------------
\* One call of _calculateImage, step by step.  Radii and taper widths are
\* in quarter pixels; a quarter pixel is 2^23 cache steps, and zero steps
\* is the radius 1/2.
\* ------------------------------------------------------------------------
SynthRadii == -1..MaxSynthRadius
SynthTapers == {2, 4}

\* a radius in quarter pixels as a cache key in steps
Steps(q) == (q - 2) * 2^23

\* static_cast<int> of the double a/b: truncation toward zero
TruncDiv(a, b) == IF a >= 0 THEN a \div b ELSE -((-a) \div b)

\* the window side with the half pixel rounded up
KernelWidthRoundedUp(radius) == (2 * (radius + 4 * bufferWidth) + 3) \div 4 + 1

\* lines 389-392: static_cast<int>(2.0*(radius + bufferWidth)) + 1
KernelWidth(radius) == TruncDiv(2 * (radius + 4 * bufferWidth), 4) + 1

\* lines 394-395: x0 = -xwidth/2 in int arithmetic
KernelOrigin(width) == -TruncDiv(width, 2)

\* ------------------------------------------------------------------------
\* SincPhotometry::doMeasure on an image of ImageSide x ImageSide pixels
\* with origin (0, 0).  The configured radii are in quarter pixels, the
\* peak's position in whole pixels.
\* ------------------------------------------------------------------------
MeasRadii == {0, 4}
Centers == -MaxCenter..MaxCenter

\* afwImage::BBox(origin, width, height)
BBox(x0, y0, width, height) == [x0 |-> x0, y0 |-> y0, width |-> width, height |-> height]

\* lines 582-583, 595-599, 606-611: the locals of doMeasure
NoMeasure ==
    [pc |-> "idle", peak |-> FALSE, r1 |-> 0, r2 |-> 0, xcen |-> 0, ycen |-> 0,
     cimage |-> [x0 |-> 0, y0 |-> 0, width |-> 0, height |-> 0],
     bbox |-> [x0 |-> 0, y0 |-> 0, width |-> 0, height |-> 0],
     flux |-> "NaN", fluxErr |-> "NaN"]

\* ------------------------------------------------------------------------
\* EllipticalApertureFlux::_apply (src/src/flux/EllipticalApertureFlux.cc).
\* Doubles are kept as fractions num/den.  A shape is its axes <<a, b>> with
\* a*b a perfect square, so that sqrt(a*b) is a whole number.
\* ------------------------------------------------------------------------
ProfRadii == 1..MaxProfRadius
RadiiLists == UNION {[1..n -> ProfRadii] : n \in 0..MaxRadii}
Shapes == {<<1, 1>>, <<2, 2>>, <<4, 1>>}

Frac(n, d) == [num |-> n, den |-> d]

\* x = y
FracEq(x, y) == x.num * y.den = y.num * x.den

\* x <= y, the denominators being positive
FracLeq(x, y) == x.num * y.den <= y.num * x.den

\* x/y
FracDiv(x, y) == Frac(x.num * y.den, x.den * y.num)

\* ::sqrt of a perfect square
Sqrt(n) == CHOOSE k \in 0..n : k * k = n

\* lines 86-89: the semi-major axis of shape scaled by fac*radii[i], with
\* fac = 1.0/::sqrt(shape.getA()*shape.getB())
OuterA(shape, radius) == Frac(shape[1] * radius, Sqrt(shape[1] * shape[2]))

\* every step handed the whole disk
InnerFactorOfDisk(oradius, outerA) == FracDiv(Frac(0, 1), outerA)

\* line 94: oradius/outer.getA(), the last argument of the flux routine
InnerFactor(oradius, outerA) == FracDiv(oradius, outerA)

\* a flux and flux-error field pair of the record that _apply has not set
Unset == [set |-> FALSE, outer |-> Frac(0, 1), factor |-> Frac(0, 1)]

NoProfile ==
    [pc |-> "idle", shapeFlag |-> FALSE, shape |-> <<1, 1>>, radii |-> <<>>,
     i |-> 0, oradius |-> Frac(0, 1), flag |-> FALSE, nProfile |-> 0,
     calls |-> 0, fields |-> [k \in 1..MaxRadii |-> Unset]]

\* lines 73-78 without line 74: the profile count of an earlier
\* measurement stays
StartKeepsCount(p) ==
    [p EXCEPT !.flag = TRUE,
              !.pc = IF p.shapeFlag THEN "done" ELSE "loop"]

\* lines 73-78 with the loop entered whatever the shape's flag
StartIgnoringShape(p) ==
    [p EXCEPT !.flag = TRUE, !.nProfile = 0, !.pc = "loop"]

\* lines 73-78: flagged as failed with no point measured; done if the
\* shape is bad
Start(p) ==
    [p EXCEPT !.flag = TRUE, !.nProfile = 0,
              !.pc = IF p.shapeFlag THEN "done" ELSE "loop"]

NoSynth ==
    [pc |-> "idle", r1 |-> 0, r2 |-> 0, tw |-> 0, xwidth |-> 0, x0 |-> 0,
     i |-> 0, integrated |-> FALSE, rows |-> 0, image |-> NoImage,
     radIn |-> 0, aperture |-> <<0, 0, 0>>, limit |-> 0]

NoTrans == [x |-> 0, y |-> 0, value |-> NaN, done |-> FALSE]

\* no buffer element touched yet
NoAccess == [kind |-> "none", index |-> 0, col |-> 0, row |-> 0]

\* before getCoeffImageFft is called
NoFft ==
    [pc |-> "idle", radius |-> 0, width |-> 0, x0 |-> 0, y0 |-> 0,
     iY |-> 0, iX |-> 0, access |-> NoAccess, xy0 |-> <<0, 0>>,
     garbage |-> FALSE]

\* before a FootprintWeightFlux is constructed.  wdims and weight are
\* the weight image the caller holds; ref is the object the member
\* _wimage refers to and live the shared pointers that exist; used: _wimage
\* has been read; bbox is the footprint's box <<x0, y0, width, height>>
\* and n the number of its pixels visited
NoFlux ==
    [pc |-> "idle", wdims |-> <<0, 0>>, weight |-> <<>>, ref |-> "none",
     live |-> {}, used |-> FALSE, bbox |-> <<0, 0, 0, 0>>, x0 |-> 0, y0 |-> 0,
     n |-> 0, sum |-> 0, sumVar |-> 0]

\* lines 100-101: the static radii, both 0.0, before any doConfigure.
\* configured: doConfigure has returned for the radii that stand.  The
\* other fields describe the doMeasure call just made, if one was
NoPhot ==
    [radius |-> Steps(0), innerRadius |-> Steps(0), configured |-> FALSE,
     op |-> "none", peak |-> FALSE, read |-> FALSE, flux |-> "NaN",
     fluxErr |-> "NaN", outcome |-> "none"]

Init ==
    /\ coeffImages = NoImages
    /\ nAlloc = 0
    /\ nSynth = 0
    /\ call = NoCall
    /\ earlier = NoCall
    /\ pc = [t \in Threads |-> "idle"]
    /\ args = [t \in Threads |-> NoCall]
    /\ img = [t \in Threads |-> NoImage]
    /\ torn = [t \in Threads |-> FALSE]
    /\ raced = FALSE
    /\ ap = NoAperture
    /\ trans = NoTrans
    /\ synth = NoSynth
    /\ meas = NoMeasure
    /\ prof = NoProfile
    /\ fft = NoFft
    /\ wflux = NoFlux
    /\ phot = NoPhot

\* getCoeffImage(innerRadius, radius, taperwidth) run to completion by
\* one thread: getImage's float conversion, then _calculateImage.  The
\* constructor's checks see the radii counted from 0.0, which is Steps(0)
GetImage(innerRadius, radius, taperwidth) ==
    LET r1  == ToFloat(innerRadius)
        r2  == ToFloat(radius)
        hit == Lookup(coeffImages, r1, r2)
        new == Filled(NewImage(r1, r2, taperwidth))
    IN  /\ IF hit # {}
           THEN /\ call' = Done(r1, r2, taperwidth, "hit", CHOOSE k \in hit : TRUE)
                /\ UNCHANGED <<coeffImages, nAlloc, nSynth>>
           ELSE /\ nAlloc < MaxKernels
                /\ nAlloc' = nAlloc + 1
                /\ IF InvalidGeometry(r1 - Steps(0), r2 - Steps(0))
                   THEN /\ call' = Done(r1, r2, taperwidth, "error", NoImage)
                        /\ UNCHANGED <<coeffImages, nSynth>>
                   ELSE /\ nSynth' = nSynth + 1
                        /\ coeffImages' = Store(coeffImages, r1, r2, new)
                        /\ call' = Done(r1, r2, taperwidth, "miss", new)
        /\ UNCHANGED <<threadVars, apVars, measVars, restVars>>

Next ==
    \E innerRadius \in Radii, radius \in Radii, taperwidth \in TaperWidths :
        GetImage(innerRadius, radius, taperwidth) /\ UNCHANGED <<earlier, phot>>

Spec == Init /\ [][Next]_vars

\* the same calls, with the history variable recording
NextHistory ==
    \E innerRadius \in Radii, radius \in Radii, taperwidth \in TaperWidths :
        GetImage(innerRadius, radius, taperwidth) /\ Remember /\ UNCHANGED phot

SpecHistory == Init /\ [][NextHistory]_vars

\* ------------------------------------------------------------------------
\* Threads in _calculateImage.  The code takes no lock: a map access is an
\* interval, FindBegin..FindEnd or InsertBegin..InsertEnd, and one that
\* overlaps another thread's insert is a data race on the std::map, whose
\* outcome is any of: the access as if alone, a lookup that misses or
\* lands on any stored image, an insert that is lost.
\* ------------------------------------------------------------------------
Others(t) == Threads \ {t}

Inserting(T) == \E u \in T : pc[u] = "inserting"

InMap(T) == {u \in T : pc[u] \in {"finding", "inserting"}}

\* lines 344-346, 374: the call, into the first find
FindBegin(t, innerRadius, radius) ==
    /\ pc[t] = "idle"
    /\ pc' = [pc EXCEPT ![t] = "finding"]
    /\ args' = [args EXCEPT ![t] = Done(ToFloat(innerRadius), ToFloat(radius),
                                        DefaultTaper, "none", NoImage)]
    /\ torn' = [torn EXCEPT ![t] = Inserting(Others(t))]
    /\ UNCHANGED <<coeffImages, nAlloc, nSynth, img>>

\* what the finds of lines 374-381 may give
Found(t) ==
    IF torn[t]
    THEN {{}} \cup {{e[3]} : e \in Entries(coeffImages)}
    ELSE {Lookup(coeffImages, args[t].r1, args[t].r2)}

\* lines 375-381: return the stored image, or go on to make one
FindEnd(t) ==
    /\ pc[t] = "finding"
    /\ \E hit \in Found(t) :
        IF hit # {}
        THEN /\ img' = [img EXCEPT ![t] = CHOOSE k \in hit : TRUE]
             /\ args' = [args EXCEPT ![t].outcome = "hit"]
             /\ pc' = [pc EXCEPT ![t] = "return"]
        ELSE /\ pc' = [pc EXCEPT ![t] = "alloc"]
             /\ UNCHANGED <<img, args>>
    /\ torn' = [torn EXCEPT ![t] = FALSE]
    /\ UNCHANGED <<coeffImages, nAlloc, nSynth>>

\* lines 385-423: the image is allocated, the radius solver runs, the
\* aperture is constructed (and may throw)
Alloc(t) ==
    /\ pc[t] = "alloc"
    /\ nAlloc < MaxKernels
    /\ nAlloc' = nAlloc + 1
    /\ IF InvalidGeometry(args[t].r1, args[t].r2)
       THEN /\ args' = [args EXCEPT ![t].outcome = "error"]
            /\ pc' = [pc EXCEPT ![t] = "return"]
            /\ UNCHANGED img
       ELSE /\ img' = [img EXCEPT ![t] = NewImage(args[t].r1, args[t].r2, args[t].tw)]
            /\ pc' = [pc EXCEPT ![t] = "fill"]
            /\ UNCHANGED args
    /\ UNCHANGED <<coeffImages, nSynth, torn>>

\* lines 436-455: one row of coefficients; after the last, lines 458-464
Fill(t) ==
    /\ pc[t] = "fill"
    /\ img' = [img EXCEPT ![t].written = @ + 1]
    /\ IF img[t].written + 1 = ImageRows
       THEN /\ pc' = [pc EXCEPT ![t] = "filled"]
            /\ nSynth' = nSynth + 1
       ELSE UNCHANGED <<pc, nSynth>>
    /\ UNCHANGED <<coeffImages, nAlloc, args, torn>>

\* the insert entered before the last row is written
InsertBeginEarly(t) ==
    /\ pc[t] \in {"fill", "filled"}
    /\ pc' = [pc EXCEPT ![t] = "inserting"]
    /\ torn' = [u \in Threads |->
                  IF u = t THEN Inserting(Others(t))
                  ELSE torn[u] \/ u \in InMap(Others(t))]
    /\ UNCHANGED <<coeffImages, nAlloc, nSynth, args, img>>

\* line 470: into the operator[] calls
InsertBegin(t) ==
    /\ pc[t] = "filled"
    /\ pc' = [pc EXCEPT ![t] = "inserting"]
    /\ torn' = [u \in Threads |->
                  IF u = t THEN Inserting(Others(t))
                  ELSE torn[u] \/ u \in InMap(Others(t))]
    /\ UNCHANGED <<coeffImages, nAlloc, nSynth, args, img>>

\* what line 470 may leave in the map
Stored(t) ==
    {Store(coeffImages, args[t].r1, args[t].r2, img[t])}
        \cup (IF torn[t] THEN {coeffImages} ELSE {})

\* lines 470-472: the image is bound in the map, and is the result
InsertEnd(t) ==
    /\ pc[t] = "inserting"
    /\ coeffImages' \in Stored(t)
    /\ args' = [args EXCEPT ![t].outcome = "miss"]
    /\ pc' = [pc EXCEPT ![t] = "return"]
    /\ torn' = [torn EXCEPT ![t] = FALSE]
    /\ UNCHANGED <<nAlloc, nSynth, img>>

\* lines 379, 472, or the throw of line 423: the caller has the result
Return(t) ==
    /\ pc[t] = "return"
    /\ pc' = [pc EXCEPT ![t] = "idle"]
    /\ args' = [args EXCEPT ![t] = NoCall]
    /\ img' = [img EXCEPT ![t] = NoImage]
    /\ UNCHANGED <<coeffImages, nAlloc, nSynth, torn>>

ThreadStep(t) ==
    \/ \E k \in SharedKeys : FindBegin(t, k[1], k[2])
    \/ FindEnd(t)
    \/ Alloc(t)
    \/ Fill(t)
    \/ InsertBegin(t)
    \/ InsertEnd(t)
    \/ Return(t)

NextThreads ==
    \E t \in Threads :
        ThreadStep(t) /\ UNCHANGED <<call, earlier, raced, apVars, measVars, restVars, phot>>

SpecThreads == Init /\ [][NextThreads]_vars

\* the history of a thread's step: the call it completes, and any race
History(t) ==
    /\ raced' = (raced \/ \E u \in Threads : torn'[u])
    /\ IF pc[t] = "return"
       THEN /\ call' = [args[t] EXCEPT !.image = img[t]]
            /\ Remember
       ELSE UNCHANGED <<call, earlier>>

NextThreadsHistory ==
    \E t \in Threads :
        ThreadStep(t) /\ History(t) /\ UNCHANGED <<apVars, measVars, restVars, phot>>

SpecThreadsHistory == Init /\ [][NextThreadsHistory]_vars

\* ------------------------------------------------------------------------
\* Apertures constructed and evaluated
\* ------------------------------------------------------------------------
Construct(radius1, radius2, taperwidth) ==
    /\ ap' = CircularAperture(radius1, radius2, taperwidth)
    /\ trans' = NoTrans
    /\ UNCHANGED <<cacheVars, threadVars, measVars, restVars, phot>>

Evaluate(x, y) ==
    /\ ap.made /\ ~ap.thrown
    /\ trans' = [x |-> x, y |-> y, value |-> Transmission(ap, x, y), done |-> TRUE]
    /\ UNCHANGED <<ap, cacheVars, threadVars, measVars, restVars, phot>>

NextAperture ==
    \/ \E radius1 \in ApRadii, radius2 \in ApRadii, taperwidth \in ApTapers :
          Construct(radius1, radius2, taperwidth)
    \/ \E x \in ApPoints : Evaluate(x, 0)

SpecAperture == Init /\ [][NextAperture]_vars

\* ------------------------------------------------------------------------
\* _calculateImage step by step
\* ------------------------------------------------------------------------
\* what a _calculateImage call leaves alone
SynthFrame == UNCHANGED <<call, earlier, threadVars, apVars, meas, prof, restVars, phot>>

\* lines 374-401: the finds; on a miss the window is sized and the image
\* allocated
SynthCall(innerRadius, radius, taperwidth) ==
    LET r1  == ToFloat(Steps(innerRadius))
        r2  == ToFloat(Steps(radius))
        hit == Lookup(coeffImages, r1, r2)
        c   == [NoSynth EXCEPT !.r1 = innerRadius, !.r2 = radius, !.tw = taperwidth]
    IN  /\ synth.pc = "idle"
        /\ IF hit # {}
           THEN /\ synth' = [c EXCEPT !.pc = "hit", !.image = CHOOSE k \in hit : TRUE]
                /\ UNCHANGED nAlloc
           ELSE /\ nAlloc < MaxKernels
                /\ nAlloc' = nAlloc + 1
                /\ synth' = [c EXCEPT !.pc = "solve",
                                      !.xwidth = KernelWidth(radius),
                                      !.x0 = KernelOrigin(KernelWidth(radius)),
                                      !.radIn = radius,
                                      !.image = NewImage(r1, r2, taperwidth)]
        /\ UNCHANGED <<coeffImages, nSynth>>
        /\ SynthFrame

\* line 418: the Newton step's new radius, a matter of the numerical
\* values: a quarter pixel either side of the nominal radius, or equal
Corrected(radius) == {radius - 1, radius, radius + 1}

\* lines 412-422: one pass of the solver loop.  CircApPolar constructs
\* CircularAperture(0.0, radIn, taperwidth) (line 218), with radIn = radius
\* in the first pass; then the two integrals and radIn = radNew.  Whether
\* err > tolerance holds afterwards is a matter of the numerical values.
SynthSolve ==
    /\ synth.pc = "solve"
    /\ synth.i < maxIt
    /\ IF InvalidGeometry(0, synth.radIn)
       THEN synth' = [synth EXCEPT !.pc = "thrown"]
       ELSE \E again \in BOOLEAN, radNew \in Corrected(synth.r2) :
               /\ again => synth.i + 1 < maxIt
               /\ synth' = [synth EXCEPT
                              !.i = IF again THEN @ + 1 ELSE 0,
                              !.integrated = TRUE,
                              !.radIn = radNew,
                              !.pc = IF again THEN "solve" ELSE "aperture"]
    /\ UNCHANGED <<coeffImages, nAlloc, nSynth>>
    /\ SynthFrame

ApertureOfSolvedRadius(innerRadius, radius, radIn, taperwidth) ==
    <<innerRadius, radIn, taperwidth>>

\* line 423: the arguments of the aperture the coefficients are
\* integrated against; radIn is in scope but not passed
ApertureArguments(innerRadius, radius, radIn, taperwidth) ==
    <<innerRadius, radius, taperwidth>>

\* lines 423-434: the aperture of the call is constructed, and the limits
\* of the integration
SynthAperture ==
    /\ synth.pc = "aperture"
    /\ LET a == ApertureArguments(synth.r1, synth.r2, synth.radIn, synth.tw)
       IN  synth' = [synth EXCEPT
                       !.aperture = a,
                       !.limit = synth.r2 + synth.tw,
                       !.pc = IF InvalidGeometry(a[1], a[2])
                              THEN "thrown" ELSE "quad"]
    /\ UNCHANGED <<coeffImages, nAlloc, nSynth>>
    /\ SynthFrame

\* lines 436-455: the double integrals of one row; after the last row,
\* lines 458-464
SynthQuad ==
    /\ synth.pc = "quad"
    /\ synth' = [synth EXCEPT
                   !.rows = @ + 1,
                   !.image.written = @ + 1,
                   !.pc = IF synth.rows + 1 = ImageRows THEN "store" ELSE "quad"]
    /\ nSynth' = IF synth.rows + 1 = ImageRows THEN nSynth + 1 ELSE nSynth
    /\ UNCHANGED <<coeffImages, nAlloc>>
    /\ SynthFrame

\* lines 470-472
SynthStore ==
    /\ synth.pc = "store"
    /\ coeffImages' = Store(coeffImages, synth.image.r1, synth.image.r2, synth.image)
    /\ synth' = [synth EXCEPT !.pc = "done"]
    /\ UNCHANGED <<nAlloc, nSynth>>
    /\ SynthFrame

\* the caller has the image or the exception
SynthReturn ==
    /\ synth.pc \in {"hit", "done", "thrown"}
    /\ synth' = NoSynth
    /\ UNCHANGED <<coeffImages, nAlloc, nSynth>>
    /\ SynthFrame

NextSynthesis ==
    \/ \E innerRadius \in SynthRadii, radius \in SynthRadii,
          taperwidth \in SynthTapers :
            SynthCall(innerRadius, radius, taperwidth)
    \/ SynthSolve
    \/ SynthAperture
    \/ SynthQuad
    \/ SynthStore
    \/ SynthReturn

SpecSynthesis == Init /\ [][NextSynthesis]_vars

\* ------------------------------------------------------------------------
\* SincPhotometry::doMeasure
\* ------------------------------------------------------------------------
\* what a doMeasure call leaves alone
MeasFrame == UNCHANGED <<cacheVars, threadVars, apVars, synth, prof, restVars, phot>>

\* lines 582-599: flux and fluxErr start as NaN; without a peak they are
\* the result
MeasBegin(peak, innerRadius, radius, xcen, ycen) ==
    /\ meas.pc = "idle"
    /\ meas' = [NoMeasure EXCEPT
                  !.pc = IF peak THEN "coeff" ELSE "done",
                  !.peak = peak, !.r1 = innerRadius, !.r2 = radius,
                  !.xcen = xcen, !.ycen = ycen]
    /\ MeasFrame

\* lines 606-611: the coefficient image for the configured radii (the
\* aperture's constructor may throw inside, and nothing here catches it),
\* shifted by offsetImage to the peak, and its box
MeasCoeff ==
    /\ meas.pc = "coeff"
    /\ IF InvalidGeometry(meas.r1, meas.r2)
       THEN meas' = [meas EXCEPT !.pc = "thrown"]
       ELSE LET w == KernelWidth(meas.r2)
                c == BBox(KernelOrigin(w) + meas.xcen, KernelOrigin(w) + meas.ycen, w, w)
            IN  meas' = [meas EXCEPT !.pc = "clip", !.cimage = c, !.bbox = c]
    /\ MeasFrame

\* lines 627-638: the corners x1, y1, x2, y2 of the part of cimage inside
\* the image, and, if the dimensions changed, the smaller zero-origin box
MeasClip ==
    LET c  == meas.cimage
        x1 == IF c.x0 < 0 THEN 0 ELSE c.x0
        y1 == IF c.y0 < 0 THEN 0 ELSE c.y0
        x2 == IF c.x0 + c.width > 0 + ImageSide
              THEN 0 + ImageSide - 1 ELSE c.x0 + c.width - 1
        y2 == IF c.y0 + c.height > 0 + ImageSide
              THEN 0 + ImageSide - 1 ELSE c.y0 + c.height - 1
    IN  /\ meas.pc = "clip"
        /\ IF (x2 - x1 + 1 # c.width) \/ (y2 - y1 + 1 # c.height)
           THEN meas' = [meas EXCEPT
                           !.pc = "sub",
                           !.bbox = BBox(x1 - c.x0, y1 - c.y0, x2 - x1 + 1, y2 - y1 + 1)]
           ELSE meas' = [meas EXCEPT !.pc = "sum"]
        /\ MeasFrame

\* a box with no pixel in it
EmptyBox(b) == b.width <= 0 \/ b.height <= 0

\* lines 639-643: the sub-image of cimage in that box, shifted back to
\* (x1, y1).  What afw's Image constructor does with a box of non-positive
\* width or height is not this file's to say: it throws, or it goes on.
MeasSub ==
    /\ meas.pc = "sub"
    /\ \E ok \in BOOLEAN :
          /\ ~EmptyBox(meas.bbox) => ok
          /\ meas' = IF ok
                     THEN LET b == BBox(meas.bbox.x0 + meas.cimage.x0,
                                        meas.bbox.y0 + meas.cimage.y0,
                                        meas.bbox.width, meas.bbox.height)
                          IN  [meas EXCEPT !.pc = "sum", !.cimage = b, !.bbox = b]
                     ELSE [meas EXCEPT !.pc = "thrown"]
    /\ MeasFrame

\* lines 651-656: the footprint of bbox is summed with cimage as weights;
\* FootprintWeightFlux::reset (lines 278-293) throws if their dimensions
\* differ
MeasSum ==
    /\ meas.pc = "sum"
    /\ \E ok \in BOOLEAN :
          /\ ~EmptyBox(meas.bbox) =>
                (ok <=> (meas.bbox.width = meas.cimage.width
                         /\ meas.bbox.height = meas.cimage.height))
          /\ meas' = IF ok
                     THEN [meas EXCEPT !.pc = "done", !.flux = "sum", !.fluxErr = "sum"]
                     ELSE [meas EXCEPT !.pc = "thrown"]
    /\ MeasFrame

\* line 658, or an exception on its way out of doMeasure
MeasReturn ==
    /\ meas.pc \in {"done", "thrown"}
    /\ meas' = NoMeasure
    /\ MeasFrame

NextMeasure ==
    \/ /\ meas.pc = "idle"
       /\ \E peak \in BOOLEAN, innerRadius \in MeasRadii, radius \in MeasRadii,
             xcen \in Centers, ycen \in Centers :
               MeasBegin(peak, innerRadius, radius, xcen, ycen)
    \/ MeasCoeff
    \/ MeasClip
    \/ MeasSub
    \/ MeasSum
    \/ MeasReturn

SpecMeasure == Init /\ [][NextMeasure]_vars

\* ------------------------------------------------------------------------
\* EllipticalApertureFlux::_apply
\* ------------------------------------------------------------------------
\* what an _apply call leaves alone
ProfFrame == UNCHANGED <<cacheVars, threadVars, apVars, synth, meas, restVars, phot>>

\* the call: a source record whose flag and profile count hold what an
\* earlier measurement left, its shape, and the configured radii
ProfCall(flag, nProfile, shapeFlag, shape, radii) ==
    /\ prof' = [NoProfile EXCEPT
                  !.pc = "start", !.flag = flag, !.nProfile = nProfile,
                  !.shapeFlag = shapeFlag, !.shape = shape, !.radii = radii]
    /\ ProfFrame

\* lines 73-85
ProfStart ==
    /\ prof.pc = "start"
    /\ prof' = Start(prof)
    /\ ProfFrame

\* lines 87-99: one pass of the loop, or its end.  The flux routine is
\* handed the ellipse and the inner factor; it returns a flux and an error,
\* or throws (line 73's comment), which ends _apply with the flag still set.
ProfStep ==
    /\ prof.pc = "loop"
    /\ prof.i < Len(prof.radii)
    /\ LET outerA == OuterA(prof.shape, prof.radii[prof.i + 1])
           factor == InnerFactor(prof.oradius, outerA)
       IN  \E ok \in BOOLEAN :
              prof' = IF ok
                      THEN [prof EXCEPT
                              !.calls = @ + 1,
                              !.oradius = outerA,
                              !.fields[prof.i + 1] =
                                  [set |-> TRUE, outer |-> outerA, factor |-> factor],
                              !.i = @ + 1]
                      ELSE [prof EXCEPT !.calls = @ + 1, !.pc = "thrown"]
    /\ ProfFrame

\* lines 100-101
ProfEnd ==
    /\ prof.pc = "loop"
    /\ prof.i = Len(prof.radii)
    /\ prof' = [prof EXCEPT !.nProfile = Len(prof.radii), !.flag = FALSE,
                            !.pc = "done"]
    /\ ProfFrame

\* lines 77, 102, or the exception on its way out
ProfReturn ==
    /\ prof.pc \in {"done", "thrown"}
    /\ prof' = NoProfile
    /\ ProfFrame

NextProfile ==
    \/ /\ prof.pc = "idle"
       /\ \E flag \in BOOLEAN, nProfile \in {0, MaxRadii}, shapeFlag \in BOOLEAN,
             shape \in Shapes, radii \in RadiiLists :
               ProfCall(flag, nProfile, shapeFlag, shape, radii)
    \/ ProfStart
    \/ ProfStep
    \/ ProfEnd
    \/ ProfReturn

SpecProfile == Init /\ [][NextProfile]_vars

\* ------------------------------------------------------------------------
\* getCoeffImageFft(innerRadius, radius), one buffer element per step.
\* Radii are counted in quarter pixels.  innerRadius is never read: the
\* Airy functor is built from radius alone (line 501).  Buffer values are
\* not modelled, only which element each step touches.
FftRadii == 0..MaxFftRadius

FftFrame == UNCHANGED <<cacheVars, threadVars, apVars, measVars, wflux, phot>>

\* lines 504-505: width = 2*(bufferWidth + static_cast<int>(radius)) + 1
FftWidth(radius) == 2 * (bufferWidth + TruncDiv(radius, 4)) + 1

\* lines 517-518: the k-space element written for loop counters iX, iY
FillIndex(width, iX, iY) == iY * width + iX

\* lines 544-546: the element of the transformed buffer read for loop
\* counters iX, iY, x = iX - x0 and y = iY - y0
CopyIndex(width, x0, y0, iX, iY) == (iY - y0) * width + (iX - x0)

\* lines 501-510: the window and the k-space buffer
FftCall(radius) ==
    /\ fft.pc = "idle"
    /\ LET width == FftWidth(radius)
       IN  fft' = [NoFft EXCEPT !.pc = "fill", !.radius = radius,
                                !.width = width,
                                !.x0 = -TruncDiv(width, 2),
                                !.y0 = -TruncDiv(width, 2)]
    /\ FftFrame

\* lines 512-520: one pass of the inner loop
FftFill ==
    /\ fft.pc = "fill"
    /\ LET last == fft.iX + 1 = fft.width
           end  == last /\ fft.iY + 1 = fft.width
       IN  fft' = [fft EXCEPT
                !.access = [kind |-> "write",
                            index |-> FillIndex(fft.width, fft.iX, fft.iY),
                            col |-> fft.iX, row |-> fft.iY],
                !.iX = IF last THEN 0 ELSE fft.iX + 1,
                !.iY = IF last THEN fft.iY + 1 ELSE fft.iY,
                !.pc = IF end THEN "execute" ELSE "fill"]
    /\ FftFrame

\* lines 523-539: the inverse transform, then the output image, whose
\* origin stays the (0, 0) of a new Image: setXY0 is not called
FftExecute ==
    /\ fft.pc = "execute"
    /\ fft' = [fft EXCEPT !.pc = "copy", !.xy0 = <<0, 0>>,
                          !.iY = fft.y0, !.iX = 0, !.access = NoAccess]
    /\ FftFrame

\* lines 540-549: one pass of the inner loop.  A read past the end of
\* the buffer is undefined: it yields some value, or the call dies
FftCopy ==
    /\ fft.pc = "copy"
    /\ LET index == CopyIndex(fft.width, fft.x0, fft.y0, fft.iX, fft.iY)
           inside == index \in 0..(fft.width * fft.width - 1)
           last == fft.iX + 1 = fft.width
           end  == last /\ fft.iY + 1 = fft.y0 + fft.width
           read == [fft EXCEPT
                !.access = [kind |-> "read", index |-> index,
                            col |-> fft.iX, row |-> fft.iY - fft.y0],
                !.garbage = fft.garbage \/ ~inside,
                !.iX = IF last THEN 0 ELSE fft.iX + 1,
                !.iY = IF last THEN fft.iY + 1 ELSE fft.iY,
                !.pc = IF end THEN "done" ELSE "copy"]
       IN  \/ fft' = read
           \/ /\ ~inside
              /\ fft' = [read EXCEPT !.pc = "crashed"]
    /\ FftFrame

\* line 551, or the death of the call
FftReturn ==
    /\ fft.pc \in {"done", "crashed"}
    /\ fft' = NoFft
    /\ FftFrame

NextFft ==
    \/ \E radius \in FftRadii : FftCall(radius)
    \/ FftFill
    \/ FftExecute
    \/ FftCopy
    \/ FftReturn

SpecFft == Init /\ [][NextFft]_vars

\* ------------------------------------------------------------------------
\* SincPhotometry's static radii, doConfigure and doMeasure as whole calls
\* on the float cache, next to other callers of getCoeffImage<float>.
\* Radii are cache keys in steps; 0.0 is Steps(0).
\* ------------------------------------------------------------------------
PhotFrame == UNCHANGED <<earlier, threadVars, apVars, measVars, restVars>>

\* the radii a policy names: a float within epsilon of both radii other
\* code asks for, and one of those radii
ConfigRadii == {Eps \div 2, Eps}

\* line 84
SetRadius(radius) ==
    /\ phot' = [NoPhot EXCEPT !.radius = radius,
                              !.innerRadius = phot.innerRadius]
    /\ UNCHANGED <<coeffImages, nAlloc, nSynth, call>>
    /\ PhotFrame

\* line 85
SetInnerRadius(iradius) ==
    /\ phot' = [NoPhot EXCEPT !.radius = phot.radius,
                              !.innerRadius = iradius]
    /\ UNCHANGED <<coeffImages, nAlloc, nSynth, call>>
    /\ PhotFrame

\* lines 561-571: with a double "radius" in the policy the radii are set
\* and the coefficients computed; an exception of getImage leaves the
\* radii set.  Without it nothing is done.
DoConfigure(hasRadius, radius, hasInner, innerRadius) ==
    LET iradius == IF hasInner THEN innerRadius ELSE Steps(0)
    IN  /\ IF hasRadius
           THEN /\ GetImage(iradius, radius, DefaultTaper)
                /\ phot' = [NoPhot EXCEPT
                              !.radius = radius, !.innerRadius = iradius,
                              !.configured = call'.outcome # "error"]
           ELSE /\ phot' = [NoPhot EXCEPT
                              !.radius = phot.radius,
                              !.innerRadius = phot.innerRadius,
                              !.configured = phot.configured]
                /\ UNCHANGED <<coeffImages, nAlloc, nSynth, call>>
        /\ PhotFrame

\* doMeasure with every peak taken for a null one
MeasureIgnoringPeak(peak) == TRUE

\* line 584: whether doMeasure goes past its first return
Measured(peak) == peak

\* lines 577-659: a null peak returns NaN at line 585; else the exposure
\* is read (line 593), the kernel fetched for the static radii (line 606)
\* and the flux summed, unless the fetch or the clipped aperture ends the
\* call by an exception
DoMeasure(peak) ==
    /\ IF Measured(peak)
       THEN /\ GetImage(phot.innerRadius, phot.radius, DefaultTaper)
            /\ \E sum \in {"sum", "thrown"} :
                 /\ call'.outcome = "error" => sum = "thrown"
                 /\ phot' = [phot EXCEPT
                               !.op = "measure", !.peak = peak,
                               !.read = TRUE,
                               !.outcome = call'.outcome,
                               !.flux = sum, !.fluxErr = sum]
       ELSE /\ phot' = [phot EXCEPT !.op = "measure", !.peak = peak,
                                    !.read = FALSE, !.outcome = "none",
                                    !.flux = "NaN", !.fluxErr = "NaN"]
            /\ UNCHANGED <<coeffImages, nAlloc, nSynth, call>>
    /\ PhotFrame

\* lines 478-483: getCoeffImage<float> called by other code
GetOther(innerRadius, radius, taperwidth) ==
    /\ GetImage(innerRadius, radius, taperwidth)
    /\ phot' = [NoPhot EXCEPT !.radius = phot.radius,
                              !.innerRadius = phot.innerRadius,
                              !.configured = phot.configured]
    /\ PhotFrame

\* policies as <<has "radius", radius, has "innerRadius", innerRadius>>,
\* an absent entry written as 0: none of the two, the radius alone, both
Policies ==
    {<<FALSE, 0, FALSE, 0>>}
        \cup {<<TRUE, radius, FALSE, 0>> : radius \in ConfigRadii}
        \cup {<<TRUE, radius, TRUE, iradius>> :
                  radius \in ConfigRadii, iradius \in ConfigRadii}

NextPhotometry ==
    \/ \E radius \in ConfigRadii : SetRadius(radius)
    \/ \E iradius \in ConfigRadii : SetInnerRadius(iradius)
    \/ \E p \in Policies : DoConfigure(p[1], p[2], p[3], p[4])
    \/ \E peak \in BOOLEAN : DoMeasure(peak)
    \/ \E k \in SharedKeys : GetOther(k[1], k[2], DefaultTaper)

SpecPhotometry == Init /\ [][NextPhotometry]_vars

\* ------------------------------------------------------------------------
\* FootprintWeightFlux: construction as in doMeasure (line 651), then
\* apply(foot) of the FootprintFunctor base: reset(), reset(foot), and
\* operator() on every pixel of the footprint, row by row.
\* ------------------------------------------------------------------------
Sides == 1..MaxSide
Origins == 0..1
WeightValues == {-1, 2}

FluxFrame == UNCHANGED <<cacheVars, threadVars, apVars, measVars, fft, phot>>

\* the data image's pixel and its variance at (x, y)
Pixel(x, y) == 1 + x + 2 * y
Variance(x, y) == 1 + y

\* the weight images of a given size
WeightImages(dims) == [(0..(dims[1] - 1)) \X (0..(dims[2] - 1)) -> WeightValues]

\* the k-th pixel of box b, rows first
Cell(b, k) == <<b[1] + ((k - 1) % b[3]), b[2] + ((k - 1) \div b[3])>>

\* what a read through the reference _wimage gives: the caller's value
\* while the object referred to exists, else anything
Through(f, value, any) == IF f.ref \in f.live THEN {value} ELSE any

\* lines 267-274: _wimage is bound to the constructor's parameter wimage,
\* a copy of the caller's pointer
WfConstruct(dims, weight) ==
    /\ wflux.pc = "idle"
    /\ wflux' = [NoFlux EXCEPT !.pc = "constructing", !.wdims = dims,
                               !.weight = weight, !.ref = "wimage",
                               !.live = {"cimage", "wimage"}]
    /\ FluxFrame

\* the constructor returns: its parameter is destroyed
WfConstructed ==
    /\ wflux.pc = "constructing"
    /\ wflux' = [wflux EXCEPT !.pc = "ready", !.live = @ \ {"wimage"}]
    /\ FluxFrame

\* line 654, lines 277-293: apply's reset(foot) zeroes the sums, takes the
\* box's origin and compares the box with the weight image's dimensions
WfReset(b) ==
    /\ wflux.pc \in {"ready", "applied", "thrown"}
    /\ \E dims \in Through(wflux, wflux.wdims, Sides \X Sides) :
          wflux' = [wflux EXCEPT
                      !.used = TRUE, !.bbox = b, !.n = 0,
                      !.sum = 0, !.sumVar = 0,
                      !.x0 = b[1], !.y0 = b[2],
                      !.pc = IF <<b[3], b[4]>> # dims THEN "thrown"
                             ELSE "summing"]
    /\ FluxFrame

\* lines 296-305: operator() on the next pixel of the footprint; after
\* the last one apply returns
WfPixel ==
    /\ wflux.pc = "summing"
    /\ LET c    == Cell(wflux.bbox, wflux.n + 1)
           at   == <<c[1] - wflux.x0, c[2] - wflux.y0>>
           ival == Pixel(c[1], c[2])
           vval == Variance(c[1], c[2])
           held == IF at \in DOMAIN wflux.weight THEN {wflux.weight[at]}
                   ELSE WeightValues \cup {0}
       IN  \E wval \in UNION {Through(wflux, h, WeightValues \cup {0}) : h \in held} :
              wflux' = [wflux EXCEPT
                          !.n = @ + 1,
                          !.sum = @ + wval * ival,
                          !.sumVar = @ + wval * wval * vval,
                          !.pc = IF wflux.n + 1 = wflux.bbox[3] * wflux.bbox[4]
                                 THEN "applied" ELSE "summing"]
    /\ FluxFrame

\* a read through the dangling reference may also end the process
WfCrash ==
    /\ wflux.pc \in {"ready", "applied", "thrown", "summing"}
    /\ wflux.ref \notin wflux.live
    /\ wflux' = [wflux EXCEPT !.used = TRUE, !.pc = "crashed"]
    /\ FluxFrame

\* lines 655-658: the sums are read and the functor goes out of scope
WfDone ==
    /\ wflux.pc \in {"applied", "thrown", "crashed"}
    /\ wflux' = NoFlux
    /\ FluxFrame

NextFlux ==
    \/ \E dims \in Sides \X Sides : \E weight \in WeightImages(dims) :
          WfConstruct(dims, weight)
    \/ WfConstructed
    \/ \E x0 \in Origins, y0 \in Origins, w \in Sides, h \in Sides :
          WfReset(<<x0, y0, w, h>>)
    \/ WfPixel
    \/ WfCrash
    \/ WfDone

SpecFlux == Init /\ [][NextFlux]_vars

\* ------------------------------------------------------------------------
\* Properties
\* ------------------------------------------------------------------------
Returned(c) == c.outcome \in {"hit", "miss"}

Near(x, y) == Abs(x - y) < Eps

Images(m) == {e[3] : e \in Entries(m)}

\* C1: in a single-threaded sequence of getImage calls, any two calls with
\* identical (innerRadius, radius) return the identical image, whatever
\* calls with other radii come between them.
C1_SameRadiiSameImage ==
    (/\ Returned(call) /\ Returned(earlier)
     /\ call.r1 = earlier.r1 /\ call.r2 = earlier.r2)
        => call.image.id = earlier.image.id

\* C2: a call made while the cache holds an entry whose inner radius and
\* whose radius are each less than epsilon from the requested ones is a
\* hit: it returns a stored image, with no synthesis and no insertion.
C2_NearEntryIsHit ==
    [][(\E e \in Entries(coeffImages) :
            Near(e[1], call'.r1) /\ Near(e[2], call'.r2))
        => /\ call'.outcome = "hit"
           /\ call'.image \in Images(coeffImages)
           /\ nSynth' = nSynth
           /\ coeffImages' = coeffImages]_vars

\* the case of C3: valid radii, and every stored entry at least epsilon
\* away in one of the two radii
C3_Case ==
    /\ ~(call'.r1 > call'.r2 \/ call'.r1 < 0 \/ call'.r2 < 0)
    /\ \A e \in Entries(coeffImages) :
          Abs(e[1] - call'.r1) >= Eps \/ Abs(e[2] - call'.r2) >= Eps

\* C3 as stated: in that case the call runs exactly one synthesis, stores
\* the new image under the requested key (innerRadius, radius) and returns
\* it, and the cache grows by exactly one entry.
C3_MissStoresUnderRequestedKey ==
    [][C3_Case
        => /\ call'.outcome = "miss"
           /\ nSynth' = nSynth + 1
           /\ Cardinality(Entries(coeffImages')) = Cardinality(Entries(coeffImages)) + 1
           /\ Entries(coeffImages') \ Entries(coeffImages)
                = {<<call'.r1, call'.r2, call'.image>>}]_vars

\* C3 amended: in that case the call runs exactly one synthesis and returns
\* the new image, the cache grows by exactly one entry, which binds the new
\* image under the requested radius in the row of the stored inner radius
\* that the lookup selects within epsilon of the requested one (the
\* requested inner radius itself when there is none), and a lookup of the
\* requested key now gives the new image.
C3_MissStoresOneEntry ==
    [][C3_Case
        => /\ call'.outcome = "miss"
           /\ call'.image \notin Images(coeffImages)
           /\ nSynth' = nSynth + 1
           /\ Cardinality(Entries(coeffImages')) = Cardinality(Entries(coeffImages)) + 1
           /\ \E o \in DOMAIN coeffImages' :
                /\ Near(o, call'.r1)
                /\ (o # call'.r1 => o \in DOMAIN coeffImages)
                /\ Entries(coeffImages') \ Entries(coeffImages)
                     = {<<o, call'.r2, call'.image>>}
           /\ Lookup(coeffImages', call'.r1, call'.r2) = {call'.image}]_vars

\* a miss at exactly epsilon from a stored radius, in a row whose key is
\* not the requested inner radius
C3_Witness ==
    /\ call.outcome = "miss"
    /\ \E e \in Entries(coeffImages) :
          /\ e[3] = call.image /\ e[1] # call.r1
          /\ \E f \in Entries(coeffImages) :
                f[1] = e[1] /\ Abs(f[2] - e[2]) = Eps

\* C4: no entry is evicted or rebound by a call, whether it returns or
\* throws: every stored key stays bound to the same image, and the map is
\* unchanged by a hit or an error and one entry larger after a miss.
C4_NeverEvictedOrRebound ==
    [][/\ Entries(coeffImages) \subseteq Entries(coeffImages')
       /\ (call'.outcome \in {"hit", "error"} => coeffImages' = coeffImages)
       /\ (call'.outcome = "miss" =>
             Cardinality(Entries(coeffImages')) = Cardinality(Entries(coeffImages)) + 1)
      ]_vars

\* a call has thrown, and another has missed into a row that held an entry
C4_Witness ==
    /\ call.outcome = "error"
    /\ \E e \in Entries(coeffImages), f \in Entries(coeffImages) :
          e[1] = f[1] /\ e[2] # f[2]

\* C5: with threads calling for the same key, each lookup and each insert
\* taken as one atomic step, all calls that hit a published entry of that
\* key return one and the same image.
C5_HitsOfAKeyAgree ==
    (/\ ~raced
     /\ call.outcome = "hit" /\ earlier.outcome = "hit"
     /\ call.r1 = earlier.r1 /\ call.r2 = earlier.r2)
        => call.image.id = earlier.image.id

\* C6: an image is reachable through the map only once all of its rows are
\* written, and no call returns an image whose filling loop has not ended.
C6_PublishedImagesComplete ==
    /\ \A i \in Images(coeffImages) : i.written = ImageRows
    /\ \A t \in Threads :
          (pc[t] = "return" /\ Returned(args[t])) => img[t].written = ImageRows

\* a call returns a stored image while another thread is part-way through
\* filling its own
C6_Witness ==
    \E t \in Threads, u \in Threads :
        /\ pc[t] = "return" /\ args[t].outcome = "hit"
        /\ pc[u] = "fill" /\ img[u].written > 0 /\ img[u].written < ImageRows

\* C7: accesses to the map are serialized: no thread is in a lookup or an
\* insert while another thread is in an insert.
C7_MapAccessSerialized ==
    \A t \in Threads, u \in Threads :
        (t # u /\ pc[t] = "inserting") => pc[u] \notin {"finding", "inserting"}

\* C8: the constructor throws if radius1 > radius2 or a radius is negative,
\* and succeeds for every other pair of radii.
C8_ThrowsIffInvalid ==
    ap.made =>
        (ap.thrown <=> (ap.radius1 > ap.radius2 \/ ap.radius1 < 0 \/ ap.radius2 < 0))

\* a throw for a negative radius alone, the radii being in order
C8_Witness ==
    ap.made /\ ap.thrown /\ ap.radius1 <= ap.radius2 /\ ap.radius1 < 0

\* C9: an aperture with radius1 > 0 transmits exactly 0 at the origin, and
\* with radius1 < taperwidth/2 its inner ramp runs from taperLo1 = 0 to
\* taperHi1 = 2*radius1.
C9_ZeroAtOrigin ==
    (ap.made /\ ~ap.thrown /\ ap.radius1 > 0 /\ ap.taperwidth > 0)
        => /\ Transmission(ap, 0, 0) = Zero
           /\ (trans.done /\ trans.x = 0 /\ trans.y = 0) => trans.value = Zero
           /\ 2 * ap.radius1 < ap.taperwidth
                => (ap.taperLo1 = 0 /\ ap.taperHi1 = 2 * ap.radius1)

\* C10: when radius2 - radius1 is less than half the sum of the two taper
\* widths, both widths collapse to (radius2 - radius1)/2 only if
\* radius2 - radius1 < taperwidth1/2; otherwise the inner width is kept and
\* the outer one becomes radius2 - radius1 - taperwidth1.
C10_CollapseOnlyWithoutRoom ==
    (ap.made /\ ~ap.thrown) =>
        LET gap == ap.radius2 - ap.radius1
            t1  == FitAtOrigin(NoInnerTaper(
                       Members(ap.radius1, ap.radius2, ap.taperwidth))).taperwidth1
            t2  == ap.taperwidth
        IN  2 * gap < t1 + t2 =>
                IF 2 * gap < t1
                THEN ap.taperwidth1 = Half(gap) /\ ap.taperwidth2 = Half(gap)
                ELSE ap.taperwidth1 = t1 /\ ap.taperwidth2 = gap - t1

\* C11: after a successful construction with a positive taper width, both
\* taper widths are >= 0 and the ramp bands do not overlap:
\* taperHi1 <= taperLo2 and taperLo2 <= taperHi2.
C11_BandsDoNotOverlap ==
    (ap.made /\ ~ap.thrown /\ ap.taperwidth > 0)
        => /\ ap.taperwidth1 >= 0 /\ ap.taperwidth2 >= 0
           /\ ap.taperHi1 <= ap.taperLo2
           /\ ap.taperLo2 <= ap.taperHi2

\* C12: in a constructed aperture each ramp of positive width spans one
\* half-period of its cosine, taperHi - taperLo = taperwidth and
\* k = 1/(2*taperwidth), so that the inner ramp is 0 at taperLo1 and 1 at
\* taperHi1 and the outer ramp is 1 at taperLo2 and 0 at taperHi2.
C12_RampsSpanHalfPeriod ==
    (ap.made /\ ~ap.thrown /\ ap.taperwidth > 0)
        => /\ ap.taperwidth1 > 0 =>
                /\ ap.taperHi1 - ap.taperLo1 = ap.taperwidth1
                /\ ap.k1 = Recip(2 * ap.taperwidth1)
                /\ ap.taperLo1 >= 0 => Transmission(ap, ap.taperLo1, 0) = Zero
                /\ Transmission(ap, ap.taperHi1, 0) = One
           /\ ap.taperwidth2 > 0 =>
                /\ ap.taperHi2 - ap.taperLo2 = ap.taperwidth2
                /\ ap.k2 = Recip(2 * ap.taperwidth2)
                /\ Transmission(ap, ap.taperLo2, 0) = One
                /\ Transmission(ap, ap.taperHi2, 0) = Zero

\* C13: with radius1 = 0 the inner taper width is 0 and the aperture is a
\* solid disk: the transmission is exactly 1 at every distance from 0 to
\* taperLo2.
C13_SolidDisk ==
    (ap.made /\ ~ap.thrown /\ ap.radius1 = 0 /\ ap.taperwidth > 0)
        => /\ ap.taperwidth1 = 0
           /\ \A r \in ApPoints : r <= ap.taperLo2 => Transmission(ap, r, 0) = One
           /\ (trans.done /\ trans.x <= ap.taperLo2) => trans.value = One

\* a disk evaluated inside its flat part, beyond the stale inner band
C13_Witness ==
    /\ ap.made /\ ~ap.thrown /\ ap.radius1 = 0 /\ ap.radius2 > ap.taperwidth
    /\ trans.done /\ trans.x > ap.taperHi1 /\ trans.x <= ap.taperLo2
    /\ trans.value = One

\* C19: a call that misses the cache with innerRadius > radius, or with a
\* negative radius, throws before any numerical integration has run:
\* neither an integral of the radius solver nor a coefficient integral.
C19_ThrowsBeforeIntegration ==
    synth.pc = "thrown" => (~synth.integrated /\ synth.rows = 0)

\* C20 as stated: the coefficient image is a square of side
\* 2*(radius + taperwidth + bufferWidth) + 1 pixels, truncated, with
\* bufferWidth = 10.
C20_SideCountsTaperWidth ==
    synth.pc \in {"solve", "aperture", "quad", "store", "done"}
        => synth.xwidth
             = TruncDiv(2 * (synth.r2 + synth.tw + 4 * bufferWidth), 4) + 1

\* C20 amended: the side is 2*(radius + bufferWidth) truncated to an
\* integer, plus 1, with bufferWidth = 10, whatever the taper width, and
\* the image's origin is minus half the side, truncated.
C20_SideFromRadiusAlone ==
    synth.pc \in {"solve", "aperture", "quad", "store", "done"}
        => /\ 4 * (synth.xwidth - 1) <= 2 * (synth.r2 + 4 * bufferWidth)
           /\ 2 * (synth.r2 + 4 * bufferWidth) < 4 * synth.xwidth
           /\ 2 * synth.x0 \in {-synth.xwidth, -synth.xwidth + 1}

\* an image sized for a radius that is no whole number of half pixels,
\* under the wider of the taper widths
C20_Witness ==
    /\ synth.pc = "store"
    /\ synth.r2 % 2 = 1
    /\ synth.tw = 4

\* the shifted kernel's box and the image's box share no pixel
Outside(m) ==
    LET w == KernelWidth(m.r2)
        x == KernelOrigin(w) + m.xcen
        y == KernelOrigin(w) + m.ycen
    IN  \/ x + w <= 0 \/ x >= ImageSide
        \/ y + w <= 0 \/ y >= ImageSide

\* C14: when the shifted kernel's box and the image's box do not
\* intersect, the measurement reports failure: no box, sub-image or
\* footprint of non-positive width or height is made or summed, no
\* exception leaves the call, and the result carries no flux.
C14_OutsideIsReportedAsFailure ==
    (meas.peak /\ ~InvalidGeometry(meas.r1, meas.r2) /\ Outside(meas))
        => /\ meas.pc \in {"sub", "sum"} => ~EmptyBox(meas.bbox)
           /\ meas.pc # "thrown"
           /\ meas.pc = "done" => (meas.flux = "NaN" /\ meas.fluxErr = "NaN")

\* a measurement is failing: its radii are invalid or its kernel lies
\* outside the image
Failing(m) == m.peak /\ (InvalidGeometry(m.r1, m.r2) \/ Outside(m))

\* C18: a measurement that fails gives its caller a result marked failed
\* with NaN flux and NaN flux error, and no exception leaves the call.
C18_FailureIsAResult ==
    Failing(meas)
        => /\ meas.pc # "thrown"
           /\ meas.pc = "done" => (meas.flux = "NaN" /\ meas.fluxErr = "NaN")

\* C15: called on a source whose shape flag is set, _apply returns with
\* the failure flag true and the profile count 0, without a call of the
\* flux routine and without setting a flux or flux-error field.
C15_BadShapeShortCircuits ==
    (prof.shapeFlag /\ prof.pc \notin {"idle", "start"})
        => /\ prof.pc = "done"
           /\ prof.flag /\ prof.nProfile = 0
           /\ prof.calls = 0
           /\ \A k \in 1..MaxRadii : ~prof.fields[k].set

\* a bad shape on a record that an earlier measurement left unflagged with
\* a full profile, radii being configured
C15_Witness ==
    /\ prof.shapeFlag /\ prof.pc = "done" /\ Len(prof.radii) = MaxRadii
    /\ prof.flag /\ prof.nProfile = 0

\* C16: the annuli tile the disk: the inner factor of step 0 is 0, and at
\* every later step the inner factor times the step's outer semi-major axis
\* is the outer semi-major axis of the step before.
C16_AnnuliTile ==
    \A k \in 1..MaxRadii :
        prof.fields[k].set =>
            LET f == prof.fields[k]
                inner == Frac(f.factor.num * f.outer.num, f.factor.den * f.outer.den)
            IN  /\ inner.den # 0
                /\ IF k = 1 THEN inner.num = 0
                   ELSE FracEq(inner, prof.fields[k - 1].outer)

\* a profile of three steps on an elongated shape, radii increasing
C16_Witness ==
    /\ prof.pc = "done" /\ ~prof.flag /\ prof.nProfile = 3
    /\ prof.shape = <<4, 1>>
    /\ prof.radii[1] < prof.radii[2] /\ prof.radii[2] < prof.radii[3]
    /\ prof.fields[3].set

\* C17: for every configured list of radii the steps are measured in
\* increasing order of radius: each step's outer radius is >= that of the
\* step before, and the inner factor handed to the flux routine is in
\* [0, 1].
C17_StepsInIncreasingOrder ==
    \A k \in 1..MaxRadii :
        prof.fields[k].set =>
            /\ FracLeq(Frac(0, 1), prof.fields[k].factor)
            /\ FracLeq(prof.fields[k].factor, Frac(1, 1))
            /\ k > 1 => FracLeq(prof.fields[k - 1].outer, prof.fields[k].outer)

\* C21: every kernel produced by either synthesis method is centred: its
\* side is 2h + 1 and its stored top-left offset is (-h, -h), so that its
\* pixels have offsets -h..+h from the aperture centre, for every
\* radius >= 0.
C21_KernelsCentred ==
    /\ synth.pc \in {"solve", "aperture", "quad", "store", "done"} /\ synth.r2 >= 0
         => /\ synth.xwidth = 2 * (-synth.x0) + 1
    /\ fft.pc \in {"copy", "done"}
         => LET h == TruncDiv(fft.width, 2)
            IN  /\ fft.width = 2 * h + 1
                /\ fft.xy0 = <<-h, -h>>

\* C28: in getCoeffImageFft every write of the k-space buffer and every
\* read of the transformed buffer uses an index in [0, width*width), and
\* the output pixel (c, r) is taken from element r*width + c.
C28_BufferIndicesInRange ==
    fft.access.kind # "none"
        => /\ fft.access.index \in 0..(fft.width * fft.width - 1)
           /\ fft.access.kind = "read"
                => fft.access.index = fft.access.row * fft.width + fft.access.col

Complete(p) ==
    /\ p.nProfile = Len(p.radii)
    /\ \A k \in 1..Len(p.radii) : p.fields[k].set

\* C24: at every exit of _apply, by return or by exception, the failure
\* flag is false exactly when the profile count equals the number of
\* configured radii and a flux and an error have been written for every
\* index; in every other exit the flag is true and the profile count is 0.
C24_FlagFalseIffComplete ==
    prof.pc \in {"done", "thrown"}
        => /\ ~prof.flag <=> Complete(prof)
           /\ prof.flag => prof.nProfile = 0

\* C24 as it holds: at every exit a false flag comes with a complete
\* profile and a true flag with profile count 0; with at least one radius
\* configured the flag is false exactly when the profile is complete.
C24_FlagMatchesCompleteness ==
    prof.pc \in {"done", "thrown"}
        => /\ ~prof.flag => Complete(prof)
           /\ prof.flag => prof.nProfile = 0
           /\ Len(prof.radii) > 0 => (Complete(prof) => ~prof.flag)

\* an exception leaves _apply after the flux of the first radius was
\* written
C24_Witness ==
    /\ prof.pc = "thrown"
    /\ prof.i >= 1
    /\ prof.fields[1].set
    /\ prof.flag
    /\ prof.nProfile = 0

\* C25: after doConfigure has run with a policy that holds a double
\* "radius", every later doMeasure with a non-null peak, made before any
\* further setRadius, setInnerRadius or doConfigure, obtains its kernel by
\* a cache hit: no kernel is synthesized during measurement.
C25_MeasureHitsAfterConfigure ==
    (phot.op = "measure" /\ phot.peak /\ phot.configured)
        => phot.outcome = "hit"

\* C26: doMeasure with a null peak returns a result whose flux and flux
\* error are both NaN, without reading the exposure, without looking up
\* or synthesizing a kernel, and without changing the cache or the
\* configured radii.
C26_NullPeakReturnsNaN ==
    [][(phot'.op = "measure" /\ ~phot'.peak)
         => /\ phot'.flux = "NaN" /\ phot'.fluxErr = "NaN"
            /\ ~phot'.read
            /\ phot'.outcome = "none"
            /\ UNCHANGED <<coeffImages, nAlloc, nSynth, call>>
            /\ phot'.radius = phot.radius
            /\ phot'.innerRadius = phot.innerRadius]_vars

\* a null peak was measured with radii configured and kernels cached
C26_Witness ==
    /\ phot.op = "measure"
    /\ ~phot.peak
    /\ phot.flux = "NaN"
    /\ phot.configured
    /\ coeffImages # NoImages

\* C27: the kernel a get(innerRadius, outerRadius, taperWidth) call
\* returns is determined by its three arguments alone: whatever calls
\* were made before, it is a kernel synthesized from exactly that inner
\* radius, radius and taper width.
C27_KernelOfItsArguments ==
    Returned(call)
        => /\ call.image.r1 = call.r1
           /\ call.image.r2 = call.r2
           /\ call.image.tw = call.tw

\* any two distinct keys of one map are at least epsilon apart, and find
\* of a stored key gives that key
WellSpaced(keys) ==
    /\ \A j \in keys, k \in keys : j # k => Abs(j - k) >= Eps
    /\ \A k \in keys : MapFind(keys, k) = {k}

\* C30: after any single-threaded sequence of get calls, any two keys
\* stored at the same level of the two-level map differ by at least
\* epsilon, and looking up a key that is itself stored returns that key's
\* own entry.
C30_StoredKeysApart ==
    /\ WellSpaced(DOMAIN coeffImages)
    /\ \A o \in DOMAIN coeffImages : WellSpaced(DOMAIN coeffImages[o])
    /\ \A e \in Entries(coeffImages) :
          Lookup(coeffImages, e[1], e[2]) = {e[3]}

\* two rows exactly epsilon apart, one of them with two radii
C30_Witness ==
    /\ \E j \in DOMAIN coeffImages, k \in DOMAIN coeffImages : k - j = Eps
    /\ \E o \in DOMAIN coeffImages : Cardinality(DOMAIN coeffImages[o]) = 2

\* the weight that belongs to pixel (x, y) of footprint f's box
WeightAt(f, x, y) == f.weight[<<x - f.bbox[1], y - f.bbox[2]>>]

\* the weighted flux of the first k pixels of footprint f's box
RECURSIVE FluxOf(_, _)
FluxOf(f, k) ==
    IF k = 0 THEN 0
    ELSE LET c == Cell(f.bbox, k)
         IN  WeightAt(f, c[1], c[2]) * Pixel(c[1], c[2]) + FluxOf(f, k - 1)

\* the weighted variance of the first k pixels of footprint f's box
RECURSIVE VarianceOf(_, _)
VarianceOf(f, k) ==
    IF k = 0 THEN 0
    ELSE LET c == Cell(f.bbox, k)
             w == WeightAt(f, c[1], c[2])
         IN  w * w * Variance(c[1], c[2]) + VarianceOf(f, k - 1)

SameSize(f) == <<f.bbox[3], f.bbox[4]>> = f.wdims

\* C23: for a footprint whose box has the weight image's dimensions,
\* after apply the sum is the sum over the footprint's pixels of
\* weight[x - x0, y - y0] * data[x, y] and the variance sum that of
\* weight^2 * variance, whatever earlier applications left; a footprint
\* of other dimensions is rejected with a length error before any pixel
\* is summed.
C23_WeightedSums ==
    /\ (wflux.pc = "applied" /\ SameSize(wflux))
         => /\ wflux.sum = FluxOf(wflux, wflux.bbox[3] * wflux.bbox[4])
            /\ wflux.sumVar = VarianceOf(wflux, wflux.bbox[3] * wflux.bbox[4])
    /\ (wflux.used /\ wflux.pc \in {"summing", "applied", "thrown"} /\ ~SameSize(wflux))
         => (wflux.pc = "thrown" /\ wflux.n = 0 /\ wflux.sum = 0 /\ wflux.sumVar = 0)
    /\ (wflux.pc = "thrown") => ~SameSize(wflux)

\* C29: the weight-image handle a FootprintWeightFlux stores refers to an
\* object that is alive at every use of it: _wimage is not bound to
\* something destroyed before the reset and per-pixel calls of apply.
C29_WeightHandleAlive ==
    wflux.used => wflux.ref \in wflux.live

=============================================================================
